---- MODULE Spec2Model ----
(***************************************************************************)
(* Model of AddtoPDF (src/main.py): the conversion pipeline                 *)
(* convert_all_to_pdfs, the converter dispatch convert_office_to_pdf, the   *)
(* background worker CleanApp._worker_main, and the control-thread         *)
(* handlers of CleanApp (_pick_folder, _clear, _start, _poll_worker,        *)
(* _finish) that talk to the worker through the queue _q.                   *)
(*                                                                         *)
(* A file is a record [dir, stem, ext]; str(f) is the record itself,        *)
(* f.name drops dir, f.suffix is ext.  The control thread runs one handler  *)
(* at a time; modal dialogs return inside the handler that opens them.      *)
(***************************************************************************)
EXTENDS Integers, Sequences, FiniteSets, TLC

\* ---- bounds ------------------------------------------------------------
MaxRuns == 2          \* worker threads started in one behaviour
MaxClicks == 3        \* user actions (browse, type, clear, start) in one behaviour
MaxCalls == 2         \* converter calls of the converter specification
MaxLen == 3           \* longest input list of the pipeline specification

\* ---- universe of the file system ----------------------------------------
Dirs == {"A"}
Stems == {"X", "Y"}
Exts == {"docx", "pptx", "pdf", "PDF", "txt"}
AllFiles == [dir : Dirs, stem : Stems, ext : Exts]
Names == [stem : Stems, ext : Exts]
NoName == [stem |-> "", ext |-> ""]
\* texts of the folder entry: a folder, nothing, a path that does not exist,
\* the path of a regular file
FolderTexts == Dirs \cup {"", "nowhere", "afile"}
Outs == {"out1.pdf", "out2.pdf"}

File(d, s, e) == [dir |-> d, stem |-> s, ext |-> e]

\* ---- pathlib ------------------------------------------------------------
SUPPORTED_EXTS == {"doc", "docx", "ppt", "pptx", "pdf"}

\* str.lower() on a suffix
Lower(ext) ==
  CASE ext = "PDF" -> "pdf"
    [] ext = "DOCX" -> "docx"
    [] ext = "PPTX" -> "pptx"
    [] OTHER -> ext

\* Path.name
Name(f) == [stem |-> f.stem, ext |-> f.ext]

\* Path.with_suffix(".pdf")
with_suffix_pdf(f) == [f EXCEPT !.ext = "pdf"]

\* Path(folder).exists()
Exists(folder) == folder \in Dirs \cup {"afile"}

\* p.iterdir() works on a directory and raises NotADirectoryError otherwise
IsDir(folder) == folder \in Dirs

Range(s) == {s[i] : i \in DOMAIN s}

\* p.iterdir(): the enumeration order of the file system, here by name
StemSeq == <<"X", "Y">>
ExtSeq == <<"PDF", "docx", "pdf", "pptx", "txt">>
ScanOrder(folder) ==
  [i \in 1..(Len(StemSeq) * Len(ExtSeq)) |->
     File(folder, StemSeq[((i - 1) \div Len(ExtSeq)) + 1], ExtSeq[((i - 1) % Len(ExtSeq)) + 1])]

\* f.is_file() and f.suffix.lower() in SUPPORTED_EXTS
Supported(f, dsk) == dsk[f] # "absent" /\ Lower(f.ext) \in SUPPORTED_EXTS

RECURSIVE Filter(_, _, _)
Filter(s, i, dsk) ==
  IF i > Len(s) THEN <<>>
  ELSE (IF Supported(s[i], dsk) THEN <<s[i]>> ELSE <<>>) \o Filter(s, i + 1, dsk)

\* list_supported_files(folder)
list_supported_files(folder, dsk) == Filter(ScanOrder(folder), 1, dsk)

\* ---- converter dispatch --------------------------------------------------
ComOutcomes == {"ok", "raise", "raise_partial"}
SofficeOutcomes == {"ok", "procfail", "nogen", "copyfail", "copyfail_partial"}

\* convert_office_to_pdf(src, out_pdf): which backends are invoked, whether
\* the call returns or raises, and what is left at out_pdf ("keep" = untouched)
convert_office_to_pdf(ext, com_avail, so_avail, com_out, so_out) ==
  LET suffix == Lower(ext)
      tryCom == com_avail
      comOk == tryCom /\ com_out = "ok"
      comLeft == IF tryCom /\ com_out = "raise_partial" THEN "partial" ELSE "keep"
  IN  IF suffix \notin {"doc", "docx", "ppt", "pptx"}
        THEN [ok |-> FALSE, err |-> "Unsupported extension", backends |-> <<>>, left |-> "keep"]
      ELSE IF comOk
        THEN [ok |-> TRUE, err |-> "", left |-> "conv",
              backends |-> <<IF suffix \in {"doc", "docx"} THEN "word_com" ELSE "ppt_com">>]
      ELSE LET pre == IF tryCom
                        THEN <<IF suffix \in {"doc", "docx"} THEN "word_com" ELSE "ppt_com">>
                        ELSE <<>>
           IN  IF so_avail
                 THEN [ok |-> so_out = "ok",
                       err |-> IF so_out = "ok" THEN "" ELSE so_out,
                       backends |-> Append(pre, "soffice"),
                       left |-> CASE so_out = "ok" -> "conv"
                                  [] so_out = "copyfail_partial" -> "partial"
                                  [] OTHER -> comLeft]
                 ELSE [ok |-> FALSE, err |-> "No converter available",
                       backends |-> pre, left |-> comLeft]

\* ---- events put on _q ----------------------------------------------------
Ev(kind, filename, status, cur, total, msg) ==
  [kind |-> kind, filename |-> filename, status |-> status,
   cur |-> cur, total |-> total, msg |-> msg]

\* _progress_cb
ProgressEv(cur, total, msg) == Ev("progress", NoName, "", cur, total, msg)
\* _status_cb
RowEv(filename, status) == Ev("row", filename, status, 0, 0, "")
StageEv(msg) == Ev("stage", NoName, "", 0, 0, msg)
DoneEv(path) == Ev("done", NoName, "", 0, 0, path)
ErrorEv(err) == Ev("error", NoName, "", 0, 0, err)

\* ---- state ---------------------------------------------------------------
\* no converter call is followed
NoCall ==
  [pc |-> "idle", n |-> 0, src |-> [dir |-> "", stem |-> "", ext |-> ""],
   out |-> [dir |-> "", stem |-> "", ext |-> ""],
   backends |-> <<>>, com |-> "", tmpdir |-> "", err |-> ""]

VARIABLES
  _processing,    \* CleanApp._processing
  _worker,        \* CleanApp._worker: run number of the latest thread, 0 = None
  _q,             \* CleanApp._q
  _files,         \* CleanApp._files
  tree,           \* Treeview rows: f.name -> status column, "absent" = no row
  folder_var,     \* text of the folder entry
  pbar,           \* progress bar value
  status_lbl,     \* status label text
  run_btn,        \* "normal" | "disabled"
  clear_btn,      \* "normal" | "disabled"
  dialog,         \* kind of the last message box shown ("traceback": none, stderr)
  timers,         \* pending after(120, _poll_worker) callbacks
  ui_pc,          \* "idle" | "poll_check": position of the control thread
  clicks,         \* number of user actions so far
  threads,        \* run number -> state of that run's worker thread
  disk,           \* file -> content
  COM_AVAILABLE,  \* module constant COM_AVAILABLE (and os.name == "nt")
  soffice,        \* has_soffice()
  pushed,         \* history: run number -> events the run's worker has put
  chosen,         \* history: run number -> path the save dialog returned
  merged,         \* history: run number -> arguments of the merge_pdfs calls
  handled,        \* history: events _poll_worker has taken from _q, in order
  call,           \* the convert_office_to_pdf call followed step by step
  tmpdirs         \* the scratch directories that exist

vars == <<_processing, _worker, _q, _files, tree, folder_var, pbar, status_lbl,
          run_btn, clear_btn, dialog, timers, ui_pc, clicks, threads, disk,
          COM_AVAILABLE, soffice, pushed, chosen, merged, handled, call, tmpdirs>>

uiVars == <<_processing, _worker, _files, tree, folder_var, pbar, status_lbl,
            run_btn, clear_btn, dialog, timers, ui_pc, clicks, handled>>
hostVars == <<COM_AVAILABLE, soffice>>
envVars == <<hostVars, call, tmpdirs>>

Runs == 1..MaxRuns

\* a thread that was never created
NoThread ==
  [pc |-> "none", files |-> <<>>, out_pdf |-> "", done |-> 0, out_list |-> <<>>,
   out_src |-> <<>>, failed |-> {}, conv_calls |-> <<>>, written |-> <<>>, err |-> ""]

\* threading.Thread(target=self._worker_main, args=(files, out)).start()
NewThread(files, out) ==
  [NoThread EXCEPT !.pc = "loop", !.files = files, !.out_pdf = out]

\* Thread.is_alive()
is_alive(w) == w.pc \notin {"none", "dead"}

\* the thread is inside convert_all_to_pdfs or merge_pdfs
Working(w) ==
  w.pc \in {"loop", "pdf", "conv_progress", "convert", "converted", "failed",
            "failed_progress", "merge"}

EmptyTree == [n \in Names |-> "absent"]

\* ---- worker thread: convert_all_to_pdfs ----------------------------------
\* faulty variant: a LIFO queue
Put_lifo(r, ev) ==
  /\ _q' = <<ev>> \o _q
  /\ pushed' = [pushed EXCEPT ![r] = Append(@, ev)]
\* self._q.put(ev) by the worker of run r
Put(r, ev) ==
  /\ _q' = Append(_q, ev)
  /\ pushed' = [pushed EXCEPT ![r] = Append(@, ev)]

\* faulty variant: the comparison without lower()
IsPdf_cs(f) == f.ext = "pdf"
\* ext == ".pdf" after f.suffix.lower()
IsPdf(f) == Lower(f.ext) = "pdf"

\* for f in files: done += 1; first status_callback of the iteration
WorkerIter(r) ==
  LET w == threads[r] IN
  /\ w.pc = "loop"
  /\ w.done < Len(w.files)
  /\ LET f == w.files[w.done + 1] IN
       /\ Put(r, RowEv(Name(f), IF IsPdf(f) THEN "Queued" ELSE "Converting"))
       /\ threads' = [threads EXCEPT ![r].done = @ + 1,
                                     ![r].pc = IF IsPdf(f) THEN "pdf" ELSE "conv_progress"]
  /\ UNCHANGED <<uiVars, envVars, disk, chosen, merged>>

\* out_list.append(str(f)); progress_callback(done, total, "Queued PDF: ...")
WorkerPdf(r) ==
  LET w == threads[r] IN
  /\ w.pc = "pdf"
  /\ Put(r, ProgressEv(w.done, Len(w.files), "Queued PDF"))
  /\ threads' = [threads EXCEPT ![r].out_list = Append(@, w.files[w.done]),
                                ![r].out_src = Append(@, w.done),
                                ![r].pc = "loop"]
  /\ UNCHANGED <<uiVars, envVars, disk, chosen, merged>>

\* pdf_out = str(f.with_suffix(".pdf")); progress_callback(..., "Converting ...")
WorkerConvProgress(r) ==
  LET w == threads[r] IN
  /\ w.pc = "conv_progress"
  /\ Put(r, ProgressEv(w.done, Len(w.files), "Converting"))
  /\ threads' = [threads EXCEPT ![r].pc = "convert"]
  /\ UNCHANGED <<uiVars, envVars, disk, chosen, merged>>

\* convert_office_to_pdf(f, Path(pdf_out)), returning or raising
WorkerConvert(r) ==
  LET w == threads[r]
      f == w.files[w.done]
      pdf_out == with_suffix_pdf(f)
  IN
  /\ w.pc = "convert"
  /\ \E com_out \in ComOutcomes, so_out \in SofficeOutcomes :
       LET res == convert_office_to_pdf(f.ext, COM_AVAILABLE, soffice, com_out, so_out) IN
         /\ disk' = IF res.left = "keep" THEN disk ELSE [disk EXCEPT ![pdf_out] = res.left]
         /\ threads' = [threads EXCEPT
                          ![r].conv_calls = Append(@, [src |-> f, out |-> pdf_out]),
                          ![r].failed = IF res.ok THEN @ ELSE @ \cup {w.done},
                          ![r].pc = IF res.ok THEN "converted" ELSE "failed"]
  /\ UNCHANGED <<uiVars, envVars, _q, pushed, chosen, merged>>

\* faulty variant: the converted path is put at the head of the list
WorkerConverted_front(r) ==
  LET w == threads[r] IN
  /\ w.pc = "converted"
  /\ Put(r, RowEv(Name(w.files[w.done]), "Converted"))
  /\ threads' = [threads EXCEPT ![r].out_list = <<with_suffix_pdf(w.files[w.done])>> \o @,
                                ![r].out_src = <<w.done>> \o @,
                                ![r].pc = "loop"]
  /\ UNCHANGED <<uiVars, envVars, disk, chosen, merged>>

\* status_callback(f.name, "Converted"); out_list.append(pdf_out)
WorkerConverted(r) ==
  LET w == threads[r] IN
  /\ w.pc = "converted"
  /\ Put(r, RowEv(Name(w.files[w.done]), "Converted"))
  /\ threads' = [threads EXCEPT ![r].out_list = Append(@, with_suffix_pdf(w.files[w.done])),
                                ![r].out_src = Append(@, w.done),
                                ![r].pc = "loop"]
  /\ UNCHANGED <<uiVars, envVars, disk, chosen, merged>>

\* faulty variant: the status callback writes the table row from the worker
WorkerFailed_direct(r) ==
  LET w == threads[r] IN
  /\ w.pc = "failed"
  /\ tree' = [tree EXCEPT ![Name(w.files[w.done])] = "Failed"]
  /\ threads' = [threads EXCEPT ![r].pc = "failed_progress"]
  /\ UNCHANGED <<_processing, _worker, _files, folder_var, pbar, status_lbl, run_btn,
                 clear_btn, dialog, timers, ui_pc, clicks, handled, envVars, disk, _q,
                 pushed, chosen, merged>>
\* except Exception as e: status_callback(f.name, "Failed")
WorkerFailed(r) ==
  LET w == threads[r] IN
  /\ w.pc = "failed"
  /\ Put(r, RowEv(Name(w.files[w.done]), "Failed"))
  /\ threads' = [threads EXCEPT ![r].pc = "failed_progress"]
  /\ UNCHANGED <<uiVars, envVars, disk, chosen, merged>>

\* faulty variant: the first failure ends the loop
AfterFailure_abort(w) == [w EXCEPT !.pc = "loop", !.done = Len(w.files)]
\* the loop position after the except clause: the for loop goes on
AfterFailure(w) == [w EXCEPT !.pc = "loop"]

\* progress_callback(done, total, "Failed: ...")
WorkerFailedProgress(r) ==
  LET w == threads[r] IN
  /\ w.pc = "failed_progress"
  /\ Put(r, ProgressEv(w.done, Len(w.files), "Failed"))
  /\ threads' = [threads EXCEPT ![r] = AfterFailure(w)]
  /\ UNCHANGED <<uiVars, envVars, disk, chosen, merged>>

\* ---- worker thread: _worker_main ------------------------------------------
\* faulty variant: the emptiness check left out
NothingToMerge_never(pdfs) == FALSE
\* if not pdfs
NothingToMerge(pdfs) == Len(pdfs) = 0

\* return out_list; if not pdfs: raise -> except: put("error");
\* else put(("stage", ...))
WorkerReturn(r) ==
  LET w == threads[r] IN
  /\ w.pc = "loop"
  /\ w.done = Len(w.files)
  /\ IF NothingToMerge(w.out_list)
       THEN /\ Put(r, ErrorEv("No files to merge."))
            /\ threads' = [threads EXCEPT ![r].err = "No files to merge.", ![r].pc = "exit"]
       ELSE /\ Put(r, StageEv("Merging"))
            /\ threads' = [threads EXCEPT ![r].pc = "merge"]
  /\ UNCHANGED <<uiVars, envVars, disk, chosen, merged>>

\* merge_pdfs(pdf_paths, output_path): merger.append(pdf) for each path in
\* list order, then merger.write; k paths are appended without an exception,
\* k = Len + 1 stands for the write succeeding as well
merge_pdfs(pdf_paths, k) ==
  [appended |-> SubSeq(pdf_paths, 1, IF k > Len(pdf_paths) THEN Len(pdf_paths) ELSE k),
   ok |-> k = Len(pdf_paths) + 1]

\* merge_pdfs(pdfs, out_pdf), returning or raising
WorkerMerge(r) ==
  LET w == threads[r] IN
  /\ w.pc = "merge"
  /\ merged' = [merged EXCEPT ![r] = Append(@, [pdfs |-> w.out_list, out |-> w.out_pdf])]
  /\ \E k \in 0..(Len(w.out_list) + 1) :
       LET res == merge_pdfs(w.out_list, k) IN
       threads' = [threads EXCEPT ![r].pc = IF res.ok THEN "done" ELSE "error",
                                  \* merger.write puts what was appended into the
                                  \* output file; finally: merger.close() drops it
                                  ![r].written = IF res.ok THEN res.appended ELSE <<>>,
                                  ![r].err = IF res.ok THEN "" ELSE "merge failed"]
  /\ UNCHANGED <<uiVars, envVars, disk, _q, pushed, chosen>>

\* faulty variant: a fixed path in place of out_pdf
TerminalEv_first(w) == IF w.pc = "done" THEN DoneEv("out1.pdf") ELSE ErrorEv(w.err)
\* the terminal event: put(("done", out_pdf)) or, in except, put(("error", str(e)))
TerminalEv(w) == IF w.pc = "done" THEN DoneEv(w.out_pdf) ELSE ErrorEv(w.err)

\* faulty variant: the except clause written as finally
AfterTerminal_finally(w) == IF w.pc = "done" THEN "error" ELSE "exit"
\* where the thread is after its put of "done" / "error": _worker_main returns
AfterTerminal(w) == "exit"

WorkerTerminal(r) ==
  LET w == threads[r] IN
  /\ w.pc \in {"done", "error"}
  /\ Put(r, TerminalEv(w))
  /\ threads' = [threads EXCEPT ![r].pc = AfterTerminal(w)]
  /\ UNCHANGED <<uiVars, envVars, disk, chosen, merged>>

\* _worker_main returns and the thread ends
WorkerExit(r) ==
  /\ threads[r].pc = "exit"
  /\ threads' = [threads EXCEPT ![r] = [NoThread EXCEPT !.pc = "dead"]]
  /\ UNCHANGED <<uiVars, envVars, disk, _q, pushed, chosen, merged>>

WorkerNext(r) ==
  \/ WorkerIter(r)
  \/ WorkerPdf(r)
  \/ WorkerConvProgress(r)
  \/ WorkerConvert(r)
  \/ WorkerConverted(r)
  \/ WorkerFailed(r)
  \/ WorkerFailedProgress(r)
  \/ WorkerReturn(r)
  \/ WorkerMerge(r)
  \/ WorkerTerminal(r)
  \/ WorkerExit(r)

\* ---- control thread --------------------------------------------------------
\* _refresh_table: one "Ready" row per file of _files, keyed by f.name
_refresh_table(files) ==
  [n \in Names |-> IF \E i \in DOMAIN files : Name(files[i]) = n THEN "Ready" ELSE "absent"]

\* _update_row_status: only an existing row changes
_update_row_status(t, filename, status) ==
  IF filename \in DOMAIN t /\ t[filename] # "absent"
    THEN [t EXCEPT ![filename] = status]
    ELSE t

\* the widgets and flags _poll_worker and _finish write
UiState ==
  [processing |-> _processing, tree |-> tree, pbar |-> pbar, status_lbl |-> status_lbl,
   run_btn |-> run_btn, clear_btn |-> clear_btn, dialog |-> dialog]

RECURSIVE MarkMerged(_, _, _)
\* for f in self._files: self._update_row_status(f.name, "Merged")
MarkMerged(t, files, i) ==
  IF i > Len(files) THEN t
  ELSE MarkMerged(_update_row_status(t, Name(files[i]), "Merged"), files, i + 1)

\* _finish(ok, path, error)
_finish(u, ok, files) ==
  IF ok
    THEN [u EXCEPT !.processing = FALSE, !.run_btn = "normal", !.clear_btn = "normal",
                   !.pbar = 100, !.status_lbl = "Completed.", !.dialog = "success",
                   !.tree = MarkMerged(u.tree, files, 1)]
    ELSE [u EXCEPT !.processing = FALSE, !.run_btn = "normal", !.clear_btn = "normal",
                   !.status_lbl = "Failed.", !.dialog = "error"]

Max(a, b) == IF a >= b THEN a ELSE b

\* int((cur / max(total, 1)) * 100)
Pct(cur, total) == (cur * 100) \div Max(total, 1)

\* faulty variant: the run is finished at the last progress event
HandleItem_early(u, item, files) ==
  CASE item.kind = "progress" ->
         IF item.cur = item.total
           THEN _finish([u EXCEPT !.pbar = Pct(item.cur, item.total),
                                  !.status_lbl = item.msg], TRUE, files)
           ELSE [u EXCEPT !.pbar = Pct(item.cur, item.total), !.status_lbl = item.msg]
    [] item.kind = "row" ->
         [u EXCEPT !.tree = _update_row_status(u.tree, item.filename, item.status)]
    [] item.kind = "stage" -> [u EXCEPT !.status_lbl = item.msg]
    [] item.kind = "done" -> _finish(u, TRUE, files)
    [] item.kind = "error" -> _finish(u, FALSE, files)
    [] OTHER -> u
\* one iteration of the while loop of _poll_worker: dispatch on item[0]
HandleItem(u, item, files) ==
  CASE item.kind = "progress" ->
         [u EXCEPT !.pbar = Pct(item.cur, item.total), !.status_lbl = item.msg]
    [] item.kind = "row" ->
         [u EXCEPT !.tree = _update_row_status(u.tree, item.filename, item.status)]
    [] item.kind = "stage" -> [u EXCEPT !.status_lbl = item.msg]
    [] item.kind = "done" -> _finish(u, TRUE, files)
    [] item.kind = "error" -> _finish(u, FALSE, files)
    [] OTHER -> u

RECURSIVE Drain(_, _, _, _)
\* while True: item = self._q.get_nowait(); ...   until queue.Empty
Drain(u, items, i, files) ==
  IF i > Len(items) THEN u
  ELSE Drain(HandleItem(u, items[i], files), items, i + 1, files)

\* the timer fires: _poll_worker takes every queued item, up to queue.Empty
PollDrain ==
  /\ ui_pc = "idle"
  /\ timers > 0
  /\ LET u == Drain(UiState, _q, 1, _files) IN
       /\ _processing' = u.processing
       /\ tree' = u.tree
       /\ pbar' = u.pbar
       /\ status_lbl' = u.status_lbl
       /\ run_btn' = u.run_btn
       /\ clear_btn' = u.clear_btn
       /\ dialog' = u.dialog
  /\ handled' = handled \o _q
  /\ _q' = <<>>
  /\ timers' = timers - 1
  /\ ui_pc' = "poll_check"
  /\ UNCHANGED <<_worker, _files, folder_var, clicks, threads, disk, envVars, pushed,
                 chosen, merged>>

\* if self._worker and self._worker.is_alive(): self.after(120, self._poll_worker)
PollCheck ==
  /\ ui_pc = "poll_check"
  /\ timers' = IF _worker # 0 /\ is_alive(threads[_worker]) THEN timers + 1 ELSE timers
  /\ ui_pc' = "idle"
  /\ UNCHANGED <<_processing, _worker, _q, _files, tree, folder_var, pbar, status_lbl,
                 run_btn, clear_btn, dialog, clicks, threads, disk, envVars, pushed,
                 chosen, merged, handled>>

\* one more user action
Click == clicks < MaxClicks /\ clicks' = clicks + 1

\* the user types into folder_entry (textvariable = folder_var)
EditFolderEntry ==
  /\ ui_pc = "idle"
  /\ Click
  /\ \E text \in FolderTexts : text # folder_var /\ folder_var' = text
  /\ UNCHANGED <<_processing, _worker, _q, _files, tree, pbar, status_lbl, run_btn,
                 clear_btn, dialog, timers, ui_pc, threads, disk, envVars, pushed,
                 chosen, merged, handled>>

\* Browse button: _pick_folder (the button is never disabled)
_pick_folder ==
  /\ ui_pc = "idle"
  /\ Click
  /\ \E folder \in Dirs \cup {""} :
       IF folder = ""
         THEN UNCHANGED <<folder_var, _files, tree, status_lbl>>
         ELSE /\ folder_var' = folder
              /\ _files' = list_supported_files(folder, disk)
              /\ tree' = _refresh_table(list_supported_files(folder, disk))
              /\ status_lbl' = "Found"
  /\ UNCHANGED <<_processing, _worker, _q, pbar, run_btn, clear_btn, dialog, timers,
                 ui_pc, threads, disk, envVars, pushed, chosen, merged, handled>>

\* Clear button: _clear (disabled while a run is active)
_clear ==
  /\ ui_pc = "idle"
  /\ Click
  /\ clear_btn = "normal"
  /\ folder_var' = ""
  /\ _files' = <<>>
  /\ tree' = EmptyTree
  /\ pbar' = 0
  /\ status_lbl' = "Ready."
  /\ UNCHANGED <<_processing, _worker, _q, run_btn, clear_btn, dialog, timers, ui_pc,
                 threads, disk, envVars, pushed, chosen, merged, handled>>

\* the run number the next thread gets
NextRun == Cardinality({r \in Runs : threads[r].pc # "none"}) + 1

\* Convert & Merge button: _start (the button is disabled while a run is active)
_start ==
  /\ ui_pc = "idle"
  /\ run_btn = "normal"
  /\ Click
  /\ IF _processing
       THEN UNCHANGED <<_processing, _worker, _q, _files, tree, folder_var, pbar,
                        status_lbl, run_btn, clear_btn, dialog, timers, ui_pc, threads,
                        disk, envVars, pushed, chosen, merged, handled>>
     ELSE IF folder_var = "" \/ ~Exists(folder_var)
       THEN /\ dialog' = "invalid_folder"
            /\ UNCHANGED <<_processing, _worker, _q, _files, tree, folder_var, pbar,
                           status_lbl, run_btn, clear_btn, timers, ui_pc, threads, disk,
                           envVars, pushed, chosen, merged, handled>>
     ELSE IF ~IsDir(folder_var)
       \* list_supported_files raises in p.iterdir(): the handler ends there and
       \* Tk prints the traceback of the callback on stderr
       THEN /\ dialog' = "traceback"
            /\ UNCHANGED <<_processing, _worker, _q, _files, tree, folder_var, pbar,
                           status_lbl, run_btn, clear_btn, timers, ui_pc, threads, disk,
                           envVars, pushed, chosen, merged, handled>>
     ELSE LET listing == list_supported_files(folder_var, disk) IN
       /\ _files' = listing
       /\ IF Len(listing) = 0
            THEN /\ dialog' = "no_files"
                 /\ UNCHANGED <<_processing, _worker, _q, tree, folder_var, pbar,
                                status_lbl, run_btn, clear_btn, timers, ui_pc, threads,
                                disk, envVars, pushed, chosen, merged, handled>>
            ELSE \E out \in Outs \cup {""} :
                   IF out = ""
                     THEN UNCHANGED <<_processing, _worker, _q, tree, folder_var, pbar,
                                      status_lbl, run_btn, clear_btn, dialog, timers,
                                      ui_pc, threads, disk, envVars, pushed, chosen,
                                      merged, handled>>
                     ELSE /\ NextRun \in Runs
                          /\ _processing' = TRUE
                          /\ run_btn' = "disabled"
                          /\ clear_btn' = "disabled"
                          /\ status_lbl' = "Processing"
                          /\ threads' = [threads EXCEPT ![NextRun] = NewThread(listing, out)]
                          /\ _worker' = NextRun
                          /\ chosen' = [chosen EXCEPT ![NextRun] = out]
                          /\ timers' = timers + 1
                          /\ UNCHANGED <<_q, tree, folder_var, pbar, dialog, ui_pc, disk,
                                         envVars, pushed, merged, handled>>

\* ---- the application -------------------------------------------------------
InitDisk ==
  [f \in AllFiles |->
     IF f \in {File("A", "X", "docx"), File("A", "Y", "pdf"), File("A", "X", "txt")}
       THEN "orig" ELSE "absent"]

\* CleanApp.__init__
Init ==
  /\ _processing = FALSE
  /\ _worker = 0
  /\ _q = <<>>
  /\ _files = <<>>
  /\ tree = EmptyTree
  /\ folder_var = ""
  /\ pbar = 0
  /\ status_lbl = "Ready."
  /\ run_btn = "normal"
  /\ clear_btn = "normal"
  /\ dialog = "none"
  /\ timers = 0
  /\ ui_pc = "idle"
  /\ clicks = 0
  /\ threads = [r \in Runs |-> NoThread]
  /\ disk = InitDisk
  /\ COM_AVAILABLE = FALSE
  /\ soffice = TRUE
  /\ pushed = [r \in Runs |-> <<>>]
  /\ chosen = [r \in Runs |-> ""]
  /\ merged = [r \in Runs |-> <<>>]
  /\ handled = <<>>
  /\ call = NoCall
  /\ tmpdirs = {}

Worker == \E r \in Runs : WorkerNext(r)

Next ==
  \/ _pick_folder
  \/ EditFolderEntry
  \/ _clear
  \/ _start
  \/ PollDrain
  \/ PollCheck
  \/ Worker

Spec == Init /\ [][Next]_vars

\* ---- the pipeline on its own -----------------------------------------------
\* the files list_supported_files can return for folder "A"
PipelineFiles == {f \in AllFiles : f.dir = "A" /\ Lower(f.ext) \in SUPPORTED_EXTS}

\* lists of distinct files, in any enumeration order, of length 1..MaxLen
InputLists ==
  UNION {{s \in [1..n -> PipelineFiles] : \A i, j \in 1..n : s[i] = s[j] => i = j} :
           n \in 1..MaxLen}

\* the state right after _pick_folder and _start on a folder holding an input list
InitWorker ==
  \E input \in InputLists :
    /\ _processing = TRUE
    /\ _worker = 1
    /\ _q = <<>>
    /\ _files = input
    /\ tree = _refresh_table(input)
    /\ folder_var = "A"
    /\ pbar = 0
    /\ status_lbl = "Processing"
    /\ run_btn = "disabled"
    /\ clear_btn = "disabled"
    /\ dialog = "none"
    /\ timers = 1
    /\ ui_pc = "idle"
    /\ clicks = 2
    /\ threads = [r \in Runs |-> IF r = 1 THEN NewThread(input, "out1.pdf") ELSE NoThread]
    /\ disk = [f \in AllFiles |-> IF f \in Range(input) THEN "orig" ELSE "absent"]
    /\ COM_AVAILABLE \in BOOLEAN
    /\ soffice \in BOOLEAN
    /\ pushed = [r \in Runs |-> <<>>]
    /\ chosen = [r \in Runs |-> IF r = 1 THEN "out1.pdf" ELSE ""]
    /\ merged = [r \in Runs |-> <<>>]
    /\ handled = <<>>
    /\ call = NoCall
    /\ tmpdirs = {}

NextWorker == WorkerNext(1)

SpecWorker == InitWorker /\ [][NextWorker]_vars

\* ---- one converter call, step by step ---------------------------------------
TmpNames == {"hardpdf_1", "hardpdf_2"}
OfficeSuffixes == {"doc", "docx", "ppt", "pptx"}

\* convert_word_to_pdf_com for .doc/.docx, convert_ppt_to_pdf_com otherwise
ComBackend(suffix) == IF suffix \in {"doc", "docx"} THEN "word_com" ELSE "ppt_com"

\* if has_soffice(): convert_via_soffice(...); return
\* raise RuntimeError("No converter available. ...")
SofficeOrFail(c) ==
  IF soffice
    THEN [c EXCEPT !.pc = "mkdtemp"]
    ELSE [c EXCEPT !.pc = "raised", !.err = "No converter available"]

\* convert_office_to_pdf(src, src.with_suffix(".pdf")) is called
ConvBegin ==
  /\ call.pc \in {"idle", "returned", "raised"}
  /\ call.n < MaxCalls
  /\ \E src \in {f \in AllFiles : disk[f] # "absent"} :
       call' = [NoCall EXCEPT !.pc = "dispatch", !.n = call.n + 1, !.src = src,
                              !.out = with_suffix_pdf(src)]
  /\ UNCHANGED <<uiVars, hostVars, _q, threads, disk, pushed, chosen, merged, tmpdirs>>

\* suffix = src.suffix.lower(); the two outer tests
ConvDispatch ==
  /\ call.pc = "dispatch"
  /\ call' = IF Lower(call.src.ext) \notin OfficeSuffixes
               THEN [call EXCEPT !.pc = "raised", !.err = "Unsupported extension"]
             ELSE IF COM_AVAILABLE
               THEN [call EXCEPT !.pc = "com"]
             ELSE SofficeOrFail(call)
  /\ UNCHANGED <<uiVars, hostVars, _q, threads, disk, pushed, chosen, merged, tmpdirs>>

\* faulty variant: no return after the Office backend succeeded
AfterCom_noreturn(c, ok) == SofficeOrFail([c EXCEPT !.com = IF ok THEN "ok" ELSE "raised"])
\* try: convert_..._com(...); return / except Exception: pass  # fallback
AfterCom(c, ok) ==
  IF ok THEN [c EXCEPT !.pc = "returned", !.com = "ok"]
        ELSE SofficeOrFail([c EXCEPT !.com = "raised"])

\* the Office automation backend runs
ConvCom ==
  /\ call.pc = "com"
  /\ \E outcome \in ComOutcomes :
       /\ disk' = CASE outcome = "ok" -> [disk EXCEPT ![call.out] = "conv"]
                    [] outcome = "raise_partial" -> [disk EXCEPT ![call.out] = "partial"]
                    [] OTHER -> disk
       /\ call' = AfterCom([call EXCEPT !.backends =
                                          Append(@, ComBackend(Lower(call.src.ext)))],
                           outcome = "ok")
  /\ UNCHANGED <<uiVars, hostVars, _q, threads, pushed, chosen, merged, tmpdirs>>

\* convert_via_soffice: tmpdir = tempfile.mkdtemp(prefix="hardpdf_")
SofficeMkdtemp ==
  /\ call.pc = "mkdtemp"
  /\ \E d \in TmpNames \ tmpdirs :
       /\ tmpdirs' = tmpdirs \cup {d}
       /\ call' = [call EXCEPT !.pc = "run", !.tmpdir = d,
                               !.backends = Append(@, "soffice")]
  /\ UNCHANGED <<uiVars, hostVars, _q, threads, disk, pushed, chosen, merged>>

\* subprocess.run(cmd, check=True, ...); if not gen.exists(): raise
SofficeRun ==
  /\ call.pc = "run"
  /\ \E outcome \in {"ok", "procfail", "nogen"} :
       call' = IF outcome = "ok"
                 THEN [call EXCEPT !.pc = "copy"]
                 ELSE [call EXCEPT !.pc = "finally", !.err = outcome]
  /\ UNCHANGED <<uiVars, hostVars, _q, threads, disk, pushed, chosen, merged, tmpdirs>>

\* Path(out_pdf).write_bytes(gen.read_bytes())
SofficeCopy ==
  /\ call.pc = "copy"
  /\ \E outcome \in {"ok", "copyfail", "copyfail_partial"} :
       /\ disk' = CASE outcome = "ok" -> [disk EXCEPT ![call.out] = "conv"]
                    [] outcome = "copyfail_partial" -> [disk EXCEPT ![call.out] = "partial"]
                    [] OTHER -> disk
       /\ call' = [call EXCEPT !.pc = "finally",
                               !.err = IF outcome = "ok" THEN "" ELSE "copyfail"]
  /\ UNCHANGED <<uiVars, hostVars, _q, threads, pushed, chosen, merged, tmpdirs>>

\* faulty variant: the directory is removed at the end of the try block only
Rmtree_on_success(dirs, c) == IF c.err = "" THEN dirs \ {c.tmpdir} ELSE dirs
\* shutil.rmtree(tmpdir, ignore_errors=True)
Rmtree(dirs, c) == dirs \ {c.tmpdir}

\* finally: the directory is removed, then the call returns or the
\* exception goes on to the caller
SofficeFinally ==
  /\ call.pc = "finally"
  /\ tmpdirs' = Rmtree(tmpdirs, call)
  /\ call' = [call EXCEPT !.pc = IF call.err = "" THEN "returned" ELSE "raised"]
  /\ UNCHANGED <<uiVars, hostVars, _q, threads, disk, pushed, chosen, merged>>

\* the application is idle; the folder holds documents and a text file
InitConvert ==
  /\ _processing = FALSE
  /\ _worker = 0
  /\ _q = <<>>
  /\ _files = <<>>
  /\ tree = EmptyTree
  /\ folder_var = ""
  /\ pbar = 0
  /\ status_lbl = "Ready."
  /\ run_btn = "normal"
  /\ clear_btn = "normal"
  /\ dialog = "none"
  /\ timers = 0
  /\ ui_pc = "idle"
  /\ clicks = 0
  /\ threads = [r \in Runs |-> NoThread]
  /\ disk = [f \in AllFiles |-> IF f.ext \in {"docx", "pptx", "txt"} THEN "orig" ELSE "absent"]
  /\ COM_AVAILABLE \in BOOLEAN
  /\ soffice \in BOOLEAN
  /\ pushed = [r \in Runs |-> <<>>]
  /\ chosen = [r \in Runs |-> ""]
  /\ merged = [r \in Runs |-> <<>>]
  /\ handled = <<>>
  /\ call = NoCall
  /\ tmpdirs = {}

NextConvert ==
  \/ ConvBegin
  \/ ConvDispatch
  \/ ConvCom
  \/ SofficeMkdtemp
  \/ SofficeRun
  \/ SofficeCopy
  \/ SofficeFinally

SpecConvert == InitConvert /\ [][NextConvert]_vars

\* ---- properties --------------------------------------------------------------
Terminals(p) == {i \in DOMAIN p : p[i].kind \in {"done", "error"}}
OfKind(p, kind) == {i \in DOMAIN p : p[i].kind = kind}
\* convert_all_to_pdfs has returned and the thread still holds its locals
Returned(w) == w.pc \in {"merge", "done", "error", "exit"}

\* C1: at most one worker thread is inside convert_all_to_pdfs / merge_pdfs at
\* any time, and such a thread exists only while _processing is true and
\* it is the thread _start created last.
C1_OneWorker ==
  /\ Cardinality({r \in Runs : Working(threads[r])}) <= 1
  /\ \A r \in Runs : Working(threads[r]) => (_processing /\ _worker = r)

\* a second thread is at work while the first one has not yet returned
C1_Witness == threads[1].pc = "exit" /\ Working(threads[2])

\* C2: polling never stops (no timer pending, no poll in progress) while a
\* terminal event is still in the queue.
C2_PollingSeesTerminal ==
  (ui_pc = "idle" /\ timers = 0) => Terminals(_q) = {}

\* C3: a run puts at most one terminal event, nothing after it, none while
\* it is still converting or merging, and exactly one once _worker_main is over.
C3_OneTerminalLast ==
  \A r \in Runs :
    LET p == pushed[r] IN
      /\ Cardinality(Terminals(p)) <= 1
      /\ \A i \in Terminals(p) : i = Len(p)
      /\ threads[r].pc \in {"exit", "dead"} => Cardinality(Terminals(p)) = 1
      /\ threads[r].pc \notin {"exit", "dead"} => Terminals(p) = {}

\* a finished run with a failed file, a surviving file and a terminal event
C3_Witness ==
  /\ threads[1].pc = "dead"
  /\ \E i \in DOMAIN pushed[1] : pushed[1][i].status = "Failed"
  /\ \E i \in DOMAIN pushed[1] : pushed[1][i].status \in {"Queued", "Converted"}
  /\ Terminals(pushed[1]) # {}

Rank(status) ==
  CASE status = "Ready" -> 0
    [] status \in {"Queued", "Converting"} -> 1
    [] status \in {"Converted", "Failed"} -> 2
    [] status = "Merged" -> 3
    [] OTHER -> 0

\* C4: while a run is active no row moves back to an earlier status.
C4_RowsMonotonic ==
  [][_processing =>
       \A n \in Names :
         (tree[n] # "absent" /\ tree'[n] # "absent") => Rank(tree'[n]) >= Rank(tree[n])]_vars

\* the names the worker of run r reported as Failed
FailedNames(r) ==
  {pushed[r][i].filename : i \in {j \in DOMAIN pushed[r] : pushed[r][j].status = "Failed"}}

\* C5: when the control thread handles Done, the row of every file whose
\* conversion failed in that run shows Failed afterwards.
C5_FailedRowShown ==
  [][(_processing /\ ~_processing' /\ dialog' = "success" /\ _worker # 0) =>
       \A n \in FailedNames(_worker) : tree'[n] = "Failed"]_vars

\* C6: when convert_all_to_pdfs returns, every input file has had a status
\* event, every file whose conversion raised has the status Failed and
\* contributed no entry to the returned list, and the list is empty exactly
\* when no file was a PDF and every conversion raised.
C6_FailureSkipped ==
  \A r \in Runs :
    LET w == threads[r] IN
      Returned(w) =>
        /\ w.done = Len(w.files)
        /\ \A i \in DOMAIN w.files :
             \E k \in OfKind(pushed[r], "row") : pushed[r][k].filename = Name(w.files[i])
        /\ \A i \in w.failed :
             /\ RowEv(Name(w.files[i]), "Failed") \in Range(pushed[r])
             /\ i \notin Range(w.out_src)
             /\ w.files[i] \notin Range(w.out_list)
        /\ Len(w.out_list) = Len(w.files) - Cardinality(w.failed)
        /\ (w.out_list = <<>>) <=>
             (\A i \in DOMAIN w.files : Lower(w.files[i].ext) # "pdf" /\ i \in w.failed)

\* a conversion failed and a later file still reached the returned list
C6_Witness ==
  /\ threads[1].pc = "merge"
  /\ \E i \in threads[1].failed : \E j \in Range(threads[1].out_src) : j > i

\* C7: a run whose pipeline returned nothing never calls merge_pdfs and puts
\* one "error", no "done" and no "stage"; a run whose merge_pdfs raised puts
\* one "error" and no "done".
C7_RunFailure ==
  \A r \in Runs :
    LET w == threads[r]
        p == pushed[r]
    IN  /\ (w.pc = "exit" /\ w.out_list = <<>>) =>
             /\ merged[r] = <<>>
             /\ Cardinality(OfKind(p, "error")) = 1
             /\ OfKind(p, "done") = {}
             /\ OfKind(p, "stage") = {}
        /\ (w.pc = "exit" /\ w.err = "merge failed") =>
             /\ Cardinality(OfKind(p, "error")) = 1
             /\ OfKind(p, "done") = {}

\* every file of a two-file run failed, and the run is over
C7_Witness ==
  /\ threads[1].pc = "exit"
  /\ threads[1].out_list = <<>>
  /\ Len(threads[1].files) >= 2

\* C8: a run whose merge returned puts exactly one "done", carrying the path
\* the save dialog of this run returned, after a "stage", as its last event,
\* and no "error".
C8_DoneCarriesOutput ==
  \A r \in Runs :
    LET w == threads[r]
        p == pushed[r]
    IN  (w.pc = "exit" /\ w.out_list # <<>> /\ w.err = "") =>
          /\ Cardinality(OfKind(p, "done")) = 1
          /\ p[Len(p)] = DoneEv(chosen[r])
          /\ \E i \in OfKind(p, "stage") : i < Len(p)
          /\ OfKind(p, "error") = {}

\* the second run succeeded with another output path than the first
C8_Witness ==
  /\ threads[2].pc = "exit"
  /\ threads[2].err = ""
  /\ threads[2].out_list # <<>>
  /\ chosen[1] = "out1.pdf"
  /\ chosen[2] = "out2.pdf"

\* every file of the list has the extension .pdf, in any case
AllPdf(files) == \A i \in DOMAIN files : files[i].ext \in {"pdf", "PDF"}

\* C9: for a list of PDFs only, the pipeline returns the input paths in
\* order, calls no converter, and gives every file the status Queued only.
C9_PdfPassThrough ==
  \A r \in Runs :
    LET w == threads[r] IN
      (Returned(w) /\ AllPdf(w.files)) =>
        /\ w.out_list = w.files
        /\ w.conv_calls = <<>>
        /\ \A i \in DOMAIN w.files :
             /\ RowEv(Name(w.files[i]), "Queued") \in Range(pushed[r])
             /\ \A k \in OfKind(pushed[r], "row") :
                  pushed[r][k].filename = Name(w.files[i]) => pushed[r][k].status = "Queued"

\* a list of PDFs with an upper-case suffix went through the pipeline
C9_Witness ==
  /\ threads[1].pc = "merge"
  /\ Len(threads[1].files) >= 2
  /\ AllPdf(threads[1].files)
  /\ \E i \in DOMAIN threads[1].files : threads[1].files[i].ext = "PDF"

\* C10: the converter is never given an output path that is a file of the
\* input list, and every pass-through PDF handed to the merger still has the
\* content it had when the folder was scanned.
C10_PdfUntouched ==
  \A r \in Runs :
    LET w == threads[r] IN
      /\ \A i \in DOMAIN w.conv_calls : w.conv_calls[i].out \notin Range(w.files)
      /\ w.pc = "merge" =>
           \A k \in DOMAIN w.out_list :
             IsPdf(w.files[w.out_src[k]]) => disk[w.out_list[k]] = "orig"

RECURSIVE PushedUpTo(_)
\* all events put so far, run after run
PushedUpTo(r) == IF r = 0 THEN <<>> ELSE PushedUpTo(r - 1) \o pushed[r]

\* C11: the events _poll_worker has handled, followed by those still in the
\* queue, are exactly the events the workers have put, in the order put: the
\* handled sequence is a prefix of the produced one, without loss,
\* duplication or reordering.
C11_Fifo == handled \o _q = PushedUpTo(MaxRuns)

\* the poll loop has handled part of a run while the worker put more events
C11_Witness ==
  /\ Len(handled) >= 2
  /\ Len(_q) >= 2
  /\ Working(threads[1])

\* the folder text is empty, names nothing, or names something that is not
\* a directory
BadFolder(text) == text = "" \/ ~Exists(text) \/ ~IsDir(text)

\* C12: _start on an empty, missing or non-directory folder path shows the
\* "Invalid folder" error dialog and starts nothing: no thread, no timer,
\* _processing stays false, nothing is put on the queue.
C12_InvalidFolderRejected ==
  [][(_start /\ ~_processing /\ BadFolder(folder_var)) =>
       /\ dialog' = "invalid_folder"
       /\ UNCHANGED <<threads, _processing, _q, timers>>]_vars

\* a step of a worker thread: the record of an existing thread changes
ThreadStep == \E r \in Runs : threads[r].pc # "none" /\ threads'[r] # threads[r]

\* C13: a step of a worker thread leaves _files, the table rows, the
\* progress bar, the status label and _processing as they are; to the queue
\* it can only append.
C13_WorkerFrame ==
  [][ThreadStep =>
       /\ UNCHANGED <<_files, tree, pbar, status_lbl, _processing>>
       /\ Len(_q') >= Len(_q)
       /\ SubSeq(_q', 1, Len(_q)) = _q]_vars

\* the worker has reported a failure and a progress while every widget still
\* shows what it showed when the run started
C13_Witness ==
  /\ threads[1].pc = "merge"
  /\ threads[1].failed # {}
  /\ handled = <<>>
  /\ pbar = 0
  /\ status_lbl = "Processing"
  /\ \A n \in Names : tree[n] \in {"absent", "Ready"}

\* the followed call has returned or raised
CallDone == call.pc \in {"returned", "raised"}
\* the followed call is on a Word or PowerPoint file
CallOffice == Lower(call.src.ext) \in OfficeSuffixes
SofficeInvoked == "soffice" \in Range(call.backends)

\* the order and the fallback of the backends of the followed call: the
\* Office backend comes first when it is available, LibreOffice is invoked
\* only if the Office backend was unavailable or raised and never after its
\* success, and a success of the Office backend ends the call at once
BackendOrder ==
  /\ call.backends \in {<<>>, <<ComBackend(Lower(call.src.ext))>>, <<"soffice">>,
                        <<ComBackend(Lower(call.src.ext)), "soffice">>}
  /\ (CallDone /\ CallOffice /\ COM_AVAILABLE) =>
        (call.backends # <<>> /\ call.backends[1] = ComBackend(Lower(call.src.ext)))
  /\ (call.backends # <<>> /\ call.backends[1] # "soffice") => COM_AVAILABLE
  /\ SofficeInvoked => (soffice /\ (~COM_AVAILABLE \/ call.com = "raised"))
  /\ call.com = "ok" => (~SofficeInvoked /\ call.pc = "returned" /\ call.err = "")

\* the step-by-step call ends as convert_office_to_pdf does for some outcome
\* of the backends
AgreesWithDispatch ==
  CallDone =>
    \E co \in ComOutcomes, so \in SofficeOutcomes :
      LET res == convert_office_to_pdf(call.src.ext, COM_AVAILABLE, soffice, co, so)
      IN  /\ res.ok = (call.pc = "returned")
          /\ res.backends = call.backends
          /\ (res.err = "No converter available") = (call.err = "No converter available")

\* C14 as stated: the backends are tried in order with fallback, and a call
\* on an Office file fails with "No converter available" exactly when
\* neither backend is available.
C14_NoConverterIffNoneAvailable ==
  /\ BackendOrder
  /\ (CallDone /\ CallOffice) =>
        ((call.pc = "raised" /\ call.err = "No converter available")
           <=> (~COM_AVAILABLE /\ ~soffice))

\* C14: the backends are tried in order with fallback, and a call on an
\* Office file fails with "No converter available" exactly when LibreOffice
\* is not available and the Office backend was unavailable or raised.
C14_BackendFallback ==
  /\ BackendOrder
  /\ AgreesWithDispatch
  /\ (CallDone /\ CallOffice) =>
        ((call.pc = "raised" /\ call.err = "No converter available")
           <=> (~soffice /\ (~COM_AVAILABLE \/ call.com = "raised")))

\* the Office backend raised and LibreOffice then converted the file
C14_Witness ==
  /\ call.pc = "returned"
  /\ call.com = "raised"
  /\ Len(call.backends) = 2
  /\ call.backends[2] = "soffice"
  /\ disk[call.out] = "conv"

RECURSIVE Survivors(_, _, _)
Survivors(files, failed, i) ==
  IF i > Len(files) THEN <<>>
  ELSE (IF i \in failed THEN <<>>
        ELSE IF IsPdf(files[i]) THEN <<files[i]>>
        ELSE <<with_suffix_pdf(files[i])>>) \o Survivors(files, failed, i + 1)

\* C16: the list convert_all_to_pdfs returns is the input list in input
\* order, failed files removed and surviving non-PDF files replaced by
\* their .pdf path; merge_pdfs is called with exactly this list and appends
\* its paths in list order, so a merge that succeeds has written them in
\* that order.
C16_OrderPreserved ==
  \A r \in Runs :
    LET w == threads[r] IN
      Returned(w) =>
        /\ w.out_list = Survivors(w.files, w.failed, 1)
        /\ merged[r] # <<>> =>
             /\ Len(merged[r]) = 1
             /\ merged[r][1].pdfs = w.out_list
             /\ w.written = IF w.err = "" THEN w.out_list ELSE <<>>

\* three files, the second failed, a converted document and a PDF were
\* merged in input order
C16_Witness ==
  LET w == threads[1] IN
  /\ w.pc = "done"
  /\ Len(w.files) = 3
  /\ w.failed = {2}
  /\ ~IsPdf(w.files[1])
  /\ IsPdf(w.files[3])
  /\ w.written = <<with_suffix_pdf(w.files[1]), w.files[3]>>

\* the names that have a row in the table
Rows(t) == {n \in Names : t[n] # "absent"}

\* C17: while a run is active (_processing before and after the step),
\* _files and the set of table rows stay as they are, whatever the user does.
C17_FilesKeptDuringRun ==
  [][(_processing /\ _processing') =>
       /\ _files' = _files
       /\ Rows(tree') = Rows(tree)]_vars

\* q is what remains of the events p after some of the first were taken
IsSuffix(q, p) ==
  /\ Len(q) <= Len(p)
  /\ q = SubSeq(p, Len(p) - Len(q) + 1, Len(p))

\* C18: the queue is empty whenever no run is active, so it is empty when
\* _start launches a worker; during a run it holds events of that run's
\* worker only, so the poll loop hands no event of an earlier run to a
\* later one.
C18_QueueEmptyAtStart ==
  /\ ~_processing => _q = <<>>
  /\ (_processing /\ _worker # 0) => IsSuffix(_q, pushed[_worker])

\* a second run is under way after a first one was handled to its end, and
\* events of the second run wait in the queue
C18_Witness ==
  /\ _processing
  /\ _worker = 2
  /\ pushed[1] # <<>>
  /\ Len(handled) >= Len(pushed[1])
  /\ _q # <<>>

\* no path occurs at two positions of the list
NoDuplicates(list) ==
  \A i, j \in DOMAIN list : list[i] = list[j] => i = j

\* C19: the list convert_all_to_pdfs returns holds no path twice, for every
\* input list of distinct files of one folder.
C19_DistinctOutputs ==
  \A r \in Runs :
    (Returned(threads[r]) /\ NoDuplicates(threads[r].files)) =>
      NoDuplicates(threads[r].out_list)

====
